---- MODULE Spec2Model ----
(***************************************************************************)
(* Approval-gated execution workflow of the database agent:               *)
(*   - SimpleApprovalManager (src/agent/simple_approval.py): the ledger   *)
(*     of approval requests, its classifier and its lazy expiry;          *)
(*   - DatabaseAgent (src/agent/main_agent.py): the LangGraph workflow    *)
(*     router -> database_operation -> human_approval -> response and    *)
(*     the chat entry point with its __APPROVED__/__DENIED__ resume path. *)
(* Statements are sequences of whitespace-separated tokens.  The clock is *)
(* counted in seconds and advances in steps of ClockStep.                 *)
(***************************************************************************)
EXTENDS Integers, Sequences, FiniteSets, TLC

VARIABLES
    now,                \* datetime.now(), in seconds
    pending_approvals,  \* SimpleApprovalManager.pending_approvals: id -> request
    uuid_counter,       \* number of uuid4() approval ids drawn so far
    checkpoints,        \* MemorySaver: thread_id -> persisted ConversationState
    wf,                 \* the workflow.invoke call in flight (node "idle" when none)
    last,               \* the last completed call, its arguments and its return value
    successes,          \* history: per approval id, the decide calls that returned success
    exec_count,         \* history: per approval id, executions of its statement by resume steps
    callers,            \* step-wise decide / status calls in flight (concurrent specification)
    active_sessions,    \* src/main.py active_sessions: session_id -> session
    streams,            \* generate_stream of each chat_stream request: where it is suspended
    issued              \* history: per approval id, the expires_at of the request created under it

vars == <<now, pending_approvals, uuid_counter, checkpoints, wf, last,
          successes, exec_count, callers, active_sessions, streams, issued>>

----------------------------------------------------------------------------
(* Bounds of the model *)

MaxTime == 600
ClockStep == 300
MaxIds == 2
MaxTurns == 1
MaxExec == 2
MaxConcIds == 1
MaxStmtLen == 3
MaxChunks == 2
MaxThreadTurns == 2

(* Program constants *)

timeout_minutes == 5
timeout_seconds == timeout_minutes * 60

None == -1
NoId == 0

Threads == {"t1", "t2"}
\* The thread the endpoints name when a request carries no thread_id, and the
\* thread ids chat draws with uuid4 when it is called with thread_id None
DefaultThread == "default"
GeneratedThreads == {"uuid-1"}
AllThreads == Threads \cup {DefaultThread} \cup GeneratedThreads
DefaultActor == "user"
Callers == {"c1", "c2"}
Actors == {DefaultActor, "alice"}
Ids == 1..MaxIds
Sessions == {"s1"}

PENDING == "pending"
APPROVED == "approved"
DENIED == "denied"
EXPIRED == "expired"

----------------------------------------------------------------------------
(* Statements and the classifier *)

Statements ==
    { <<"DELETE", "FROM", "users">>,
      <<"drop", "table", "orders">>,
      <<"SELECT", "*", "FROM", "users">>,
      <<"TRUNCATE", "users">> }

\* AgentConfig.DANGEROUS_OPERATIONS
DANGEROUS_OPERATIONS == {"DROP", "DELETE", "ALTER", "TRUNCATE"}

\* The statements sent to POST /approval/request
RequestStatements ==
    { <<"DELETE", "FROM", "users">>,
      <<"SELECT", "*", "FROM", "users">> }

\* str.upper() / re.IGNORECASE on the tokens of the lexicon
Upper(tok) ==
    CASE tok = "drop" -> "DROP"
      [] tok = "table" -> "TABLE"
      [] tok = "select" -> "SELECT"
      [] tok = "update" -> "UPDATE"
      [] OTHER -> tok

\* \w+ at the start of a token: the captured group, "" when the token does not
\* start with a word character
WordOf(tok) == IF tok \in {"*", "="} THEN "" ELSE tok

\* pattern.search in place of pattern.match: the keywords anywhere in the
\* statement
LeadsWith_search(sql_query, kws) ==
    \E o \in 0..Len(sql_query) :
        /\ Len(sql_query) > o + Len(kws)
        /\ \A k \in 1..Len(kws) : Upper(sql_query[o + k]) = kws[k]

\* ^\s*K1\s+K2\s+ : the keywords lead the statement and whitespace follows them
LeadsWith(sql_query, kws) ==
    /\ Len(sql_query) > Len(kws)
    /\ \A k \in 1..Len(kws) : Upper(sql_query[k]) = kws[k]

\* WHERE\s+1\s*=\s*1 starting at token j
OneEqualsOne(sql_query, j) ==
    \/ /\ j <= Len(sql_query)
       /\ sql_query[j] = "1=1"
    \/ /\ j + 2 <= Len(sql_query)
       /\ sql_query[j] = "1"
       /\ sql_query[j + 1] = "="
       /\ sql_query[j + 2] = "1"

\* ^\s*UPDATE\s+.*\s+SET\s+.*\s+WHERE\s+1\s*=\s*1
MassUpdate(sql_query) ==
    /\ Len(sql_query) >= 1
    /\ Upper(sql_query[1]) = "UPDATE"
    /\ \E i, j \in 1..Len(sql_query) :
          /\ 2 < i
          /\ Upper(sql_query[i]) = "SET"
          /\ i + 1 < j
          /\ Upper(sql_query[j]) = "WHERE"
          /\ OneEqualsOne(sql_query, j + 1)

safe_patterns(sql_query) ==
    \/ LeadsWith(sql_query, <<"SELECT">>)
    \/ LeadsWith(sql_query, <<"INSERT", "INTO">>)
    \/ LeadsWith(sql_query, <<"CREATE", "TABLE">>)
    \/ LeadsWith(sql_query, <<"SHOW">>)
    \/ LeadsWith(sql_query, <<"DESCRIBE">>)

dangerous_patterns(sql_query) ==
    \/ LeadsWith(sql_query, <<"DROP">>)
    \/ LeadsWith(sql_query, <<"DELETE", "FROM">>)
    \/ LeadsWith(sql_query, <<"ALTER", "TABLE">>)
    \/ LeadsWith(sql_query, <<"TRUNCATE", "TABLE">>)
    \/ MassUpdate(sql_query)

is_dangerous_operation(sql_query) ==
    IF Len(sql_query) = 0 THEN FALSE
    ELSE IF safe_patterns(sql_query) THEN FALSE
    ELSE dangerous_patterns(sql_query)

\* re.search(K1\s+K2\s+(\w+)): the word after the first occurrence of the keywords
SearchAfter(sql_query, kws) ==
    LET hits == { i \in 1..Len(sql_query) :
                    /\ i + Len(kws) <= Len(sql_query)
                    /\ \A k \in 1..Len(kws) : Upper(sql_query[i + k - 1]) = kws[k]
                    /\ WordOf(sql_query[i + Len(kws)]) # "" }
    IN  IF hits = {} THEN ""
        ELSE LET i == CHOOSE h \in hits : \A g \in hits : h <= g
             IN  WordOf(sql_query[i + Len(kws)])

_extract_table_name(sql_query) ==
    IF SearchAfter(sql_query, <<"DROP", "TABLE", "IF", "EXISTS">>) # ""
      THEN SearchAfter(sql_query, <<"DROP", "TABLE", "IF", "EXISTS">>)
    ELSE IF SearchAfter(sql_query, <<"DROP", "TABLE">>) # ""
      THEN SearchAfter(sql_query, <<"DROP", "TABLE">>)
    ELSE IF SearchAfter(sql_query, <<"DELETE", "FROM">>) # ""
      THEN SearchAfter(sql_query, <<"DELETE", "FROM">>)
    ELSE IF SearchAfter(sql_query, <<"ALTER", "TABLE">>) # ""
      THEN SearchAfter(sql_query, <<"ALTER", "TABLE">>)
    ELSE IF SearchAfter(sql_query, <<"TRUNCATE", "TABLE">>) # ""
      THEN SearchAfter(sql_query, <<"TRUNCATE", "TABLE">>)
    ELSE SearchAfter(sql_query, <<"UPDATE">>)

\* query_upper.startswith(K) for the tokens of the lexicon
operation_type_of(sql_query) ==
    LET head == IF Len(sql_query) = 0 THEN "" ELSE Upper(sql_query[1])
    IN  IF head \in {"DROP", "DELETE", "ALTER", "TRUNCATE", "UPDATE"}
        THEN head ELSE "UNKNOWN"

get_operation_info(sql_query) ==
    [operation_type |-> operation_type_of(sql_query),
     table_name |-> _extract_table_name(sql_query)]

----------------------------------------------------------------------------
(* SimpleApprovalManager: the ledger.  Each operation is a pure function  *)
(* of the ledger pa and the clock t, giving the new ledger and the        *)
(* returned dictionary.                                                   *)

\* _is_expired with the comparison taken as "at or after expires_at"
_is_expired_at_or_after(approval, t) == t >= approval.expires_at

_is_expired(approval, t) == t > approval.expires_at

\* The request with its timeout taken in minutes
NewRequest_timeout_in_minutes(approval_id, sql_query, t) ==
    [id |-> approval_id,
     sql_query |-> sql_query,
     operation_type |-> get_operation_info(sql_query).operation_type,
     table_name |-> get_operation_info(sql_query).table_name,
     status |-> PENDING,
     created_at |-> t,
     expires_at |-> t + timeout_minutes,
     approved_at |-> None,
     denied_at |-> None,
     approved_by |-> "None"]

\* approval_request of create_approval_request
NewRequest(approval_id, sql_query, t) ==
    [id |-> approval_id,
     sql_query |-> sql_query,
     operation_type |-> get_operation_info(sql_query).operation_type,
     table_name |-> get_operation_info(sql_query).table_name,
     status |-> PENDING,
     created_at |-> t,
     expires_at |-> t + timeout_seconds,
     approved_at |-> None,
     denied_at |-> None,
     approved_by |-> "None"]

Put(pa, approval_id, approval) ==
    [i \in (DOMAIN pa) \cup {approval_id} |->
        IF i = approval_id THEN approval ELSE pa[i]]

Remove(pa, ids) == [i \in (DOMAIN pa) \ ids |-> pa[i]]

create_approval_request(pa, approval_id, sql_query, t) ==
    [pa |-> Put(pa, approval_id, NewRequest(approval_id, sql_query, t)),
     res |-> [approval_id |-> approval_id, requires_approval |-> TRUE]]

\* The returned dictionary: error is "" when the call has none, status is ""
\* when the dictionary has no status key.
StatusResult(error, status) == [error |-> error, status |-> status]

\* get_approval_status wiping the decision fields of a request it marks
\* expired
get_approval_status_resets_decision(pa, approval_id, t) ==
    IF approval_id \notin DOMAIN pa
      THEN [pa |-> pa, res |-> StatusResult("not_found", "")]
    ELSE IF _is_expired(pa[approval_id], t)
      THEN [pa |-> [pa EXCEPT ![approval_id].status = EXPIRED,
                              ![approval_id].approved_at = None,
                              ![approval_id].denied_at = None,
                              ![approval_id].approved_by = "None"],
            res |-> StatusResult("", EXPIRED)]
    ELSE [pa |-> pa, res |-> StatusResult("", pa[approval_id].status)]

\* get_approval_status answering approved for an id the ledger does not hold
get_approval_status_default_approved(pa, approval_id, t) ==
    IF approval_id \notin DOMAIN pa
      THEN [pa |-> pa, res |-> StatusResult("", APPROVED)]
    ELSE IF _is_expired(pa[approval_id], t)
      THEN [pa |-> [pa EXCEPT ![approval_id].status = EXPIRED],
            res |-> StatusResult("", EXPIRED)]
    ELSE [pa |-> pa, res |-> StatusResult("", pa[approval_id].status)]

get_approval_status(pa, approval_id, t) ==
    IF approval_id \notin DOMAIN pa
      THEN [pa |-> pa, res |-> StatusResult("not_found", "")]
    ELSE IF _is_expired(pa[approval_id], t)
      THEN [pa |-> [pa EXCEPT ![approval_id].status = EXPIRED],
            res |-> StatusResult("", EXPIRED)]
    ELSE [pa |-> pa, res |-> StatusResult("", pa[approval_id].status)]

DecideResult(success, error) == [success |-> success, error |-> error]

\* approve_operation entering an approved request for an id the ledger does
\* not hold
approve_operation_upsert(pa, approval_id, approved_by, t) ==
    IF approval_id \notin DOMAIN pa
      THEN [pa |-> Put(pa, approval_id,
                       [NewRequest(approval_id, <<>>, t) EXCEPT
                           !.status = APPROVED,
                           !.approved_at = t,
                           !.approved_by = approved_by]),
            res |-> DecideResult(TRUE, "")]
    ELSE IF pa[approval_id].status # PENDING
      THEN [pa |-> pa, res |-> DecideResult(FALSE, "not_pending")]
    ELSE IF _is_expired(pa[approval_id], t)
      THEN [pa |-> [pa EXCEPT ![approval_id].status = EXPIRED],
            res |-> DecideResult(FALSE, "expired")]
    ELSE [pa |-> [pa EXCEPT ![approval_id].status = APPROVED,
                            ![approval_id].approved_at = t,
                            ![approval_id].approved_by = approved_by],
          res |-> DecideResult(TRUE, "")]

\* approve_operation approving every pending request along with the one
\* addressed
approve_operation_all_pending(pa, approval_id, approved_by, t) ==
    IF approval_id \notin DOMAIN pa
      THEN [pa |-> pa, res |-> DecideResult(FALSE, "not_found")]
    ELSE IF pa[approval_id].status # PENDING
      THEN [pa |-> pa, res |-> DecideResult(FALSE, "not_pending")]
    ELSE IF _is_expired(pa[approval_id], t)
      THEN [pa |-> [pa EXCEPT ![approval_id].status = EXPIRED],
            res |-> DecideResult(FALSE, "expired")]
    ELSE [pa |-> [i \in DOMAIN pa |->
                    IF pa[i].status = PENDING
                    THEN [pa[i] EXCEPT !.status = APPROVED,
                                       !.approved_at = t,
                                       !.approved_by = approved_by]
                    ELSE pa[i]],
          res |-> DecideResult(TRUE, "")]

approve_operation(pa, approval_id, approved_by, t) ==
    IF approval_id \notin DOMAIN pa
      THEN [pa |-> pa, res |-> DecideResult(FALSE, "not_found")]
    ELSE IF pa[approval_id].status # PENDING
      THEN [pa |-> pa, res |-> DecideResult(FALSE, "not_pending")]
    ELSE IF _is_expired(pa[approval_id], t)
      THEN [pa |-> [pa EXCEPT ![approval_id].status = EXPIRED],
            res |-> DecideResult(FALSE, "expired")]
    ELSE [pa |-> [pa EXCEPT ![approval_id].status = APPROVED,
                            ![approval_id].approved_at = t,
                            ![approval_id].approved_by = approved_by],
          res |-> DecideResult(TRUE, "")]

\* deny_operation without the check that the request is still pending
deny_operation_unchecked(pa, approval_id, denied_by, t) ==
    IF approval_id \notin DOMAIN pa
      THEN [pa |-> pa, res |-> DecideResult(FALSE, "not_found")]
    ELSE [pa |-> [pa EXCEPT ![approval_id].status = DENIED,
                            ![approval_id].denied_at = t,
                            ![approval_id].approved_by = denied_by],
          res |-> DecideResult(TRUE, "")]

deny_operation(pa, approval_id, denied_by, t) ==
    IF approval_id \notin DOMAIN pa
      THEN [pa |-> pa, res |-> DecideResult(FALSE, "not_found")]
    ELSE IF pa[approval_id].status # PENDING
      THEN [pa |-> pa, res |-> DecideResult(FALSE, "not_pending")]
    ELSE [pa |-> [pa EXCEPT ![approval_id].status = DENIED,
                            ![approval_id].denied_at = t,
                            ![approval_id].approved_by = denied_by],
          res |-> DecideResult(TRUE, "")]

ExpiredIds(pa, t) == { i \in DOMAIN pa : _is_expired(pa[i], t) }

\* The returned dictionary of get_pending_approvals; the entries are given by
\* their ids
PendingResult(pending) ==
    [pending_approvals |-> pending, count |-> Cardinality(pending)]

\* get_pending_approvals listing every entry whose status is pending, expired
\* or not
get_pending_approvals_by_status(pa, t) ==
    [pa |-> Remove(pa, ExpiredIds(pa, t)),
     res |-> PendingResult({ i \in DOMAIN pa : pa[i].status = PENDING })]

get_pending_approvals(pa, t) ==
    [pa |-> Remove(pa, ExpiredIds(pa, t)),
     res |-> PendingResult({ i \in DOMAIN pa :
                               /\ ~_is_expired(pa[i], t)
                               /\ pa[i].status = PENDING })]

\* cleanup_expired_approvals sweeping every entry that is expired or decided
cleanup_expired_approvals_resolved(pa, t) ==
    LET resolved == { i \in DOMAIN pa :
                        _is_expired(pa[i], t) \/ pa[i].status # PENDING }
    IN  [pa |-> Remove(pa, resolved), res |-> Cardinality(resolved)]

\* cleanup_expired_approvals removing only the entries already marked expired
cleanup_expired_approvals_marked_only(pa, t) ==
    LET marked == { i \in ExpiredIds(pa, t) : pa[i].status = EXPIRED }
    IN  [pa |-> Remove(pa, marked), res |-> Cardinality(marked)]

cleanup_expired_approvals(pa, t) ==
    [pa |-> Remove(pa, ExpiredIds(pa, t)),
     res |-> Cardinality(ExpiredIds(pa, t))]

----------------------------------------------------------------------------
(* Values of the state *)

\* A chat response, an assistant message or an operation_result text.  The
\* approval message carries the operation type, the table, the statement and
\* the approval id; the texts built around an executed statement carry the
\* statement.
Resp(kind, sql_query, approval_id) ==
    [kind |-> kind,
     sql |-> sql_query,
     approval_id |-> approval_id,
     operation_type |-> IF kind = "approval_message"
                        THEN get_operation_info(sql_query).operation_type ELSE "",
     table_name |-> IF kind = "approval_message"
                    THEN get_operation_info(sql_query).table_name ELSE ""]

NoResp == Resp("", <<>>, NoId)

\* state["context"]: None (present = FALSE) or a dictionary; an absent key reads
\* as its falsy default
Context(operation_result, sql_executed, requires_approval, approval_id) ==
    [present |-> TRUE,
     operation_result |-> operation_result,
     sql_executed |-> sql_executed,
     requires_approval |-> requires_approval,
     approval_id |-> approval_id]

NoContext ==
    [present |-> FALSE,
     operation_result |-> NoResp,
     sql_executed |-> <<>>,
     requires_approval |-> FALSE,
     approval_id |-> NoId]

\* ConversationState; human_approval is None, True or False
ConversationState(messages, next_action, context, human_approval, approval_pending, approval_id) ==
    [messages |-> messages,
     next_action |-> next_action,
     context |-> context,
     human_approval |-> human_approval,
     approval_pending |-> approval_pending,
     approval_id |-> approval_id]

HumanMessage == [role |-> "user", content |-> NoResp]
AIMessage(content) == [role |-> "assistant", content |-> content]

\* A thread the checkpointer has never seen has no values
NoCheckpoint ==
    [exists |-> FALSE,
     values |-> ConversationState(<<>>, "None", NoContext, "None", FALSE, NoId)]

\* One call of execute_sql_query: the statement, the approval id it ran under
\* (NoId outside the resume path), and the ledger's status and statement for
\* that id at the moment of the call
Execution(sql_query, approval_id, pa) ==
    [sql |-> sql_query,
     approval_id |-> approval_id,
     status |-> IF approval_id \in DOMAIN pa THEN pa[approval_id].status ELSE "",
     ledger_sql |-> IF approval_id \in DOMAIN pa
                    THEN pa[approval_id].sql_query ELSE <<>>]

IdleWf ==
    [node |-> "idle",
     thread |-> "",
     requested |-> "",
     state |-> NoCheckpoint.values,
     execs |-> <<>>,
     created |-> 0,
     answer |-> "",
     gen |-> "",
     exec_ok |-> TRUE]

\* The record of the last completed call; count is the number an endpoint
\* returns (0 when it returns none), reported the thread_id the chat endpoint
\* puts in its response ("" for every other call), pending the ids of the
\* entries get_pending_approvals returns
Last(op, thread, input, approval_id, success, error, status, before, response, execs, created, count) ==
    [op |-> op,
     thread |-> thread,
     input |-> input,
     approval_id |-> approval_id,
     success |-> success,
     error |-> error,
     status |-> status,
     before |-> before,
     response |-> response,
     execs |-> execs,
     created |-> created,
     count |-> count,
     reported |-> "",
     pending |-> {}]

\* A call of the manager: status is the status it returns (for a decide call,
\* the status it leaves), before the status the ledger held when it was made
LedgerCall(op, approval_id, success, error, status, before) ==
    Last(op, "", "", approval_id, success, error, status, before, NoResp, <<>>, 0, 0)

StatusOf(pa, approval_id) ==
    IF approval_id \in DOMAIN pa THEN pa[approval_id].status ELSE ""

\* A caller of the manager that is between two statements of a method
Caller(pc, op, approval_id, result) ==
    [pc |-> pc, op |-> op, approval_id |-> approval_id, result |-> result]

IdleCaller == Caller("idle", "", NoId, "")

\* An entry of active_sessions
Session(thread_id, is_active) == [thread_id |-> thread_id, is_active |-> is_active]

\* generate_stream of one request: pc is where the generator stands, words
\* the number of two-word chunks of the response, delivered the text chunks
\* yielded, signals the chunk types yielded, chat the record of its agent.chat
\* call, stopped_at the text chunks delivered when stop_generation first
\* succeeded on the session (None: never)
Stream(pc, thread_id, words, delivered, signals, chat, stopped_at) ==
    [pc |-> pc,
     thread_id |-> thread_id,
     words |-> words,
     delivered |-> delivered,
     signals |-> signals,
     chat |-> chat,
     stopped_at |-> stopped_at]

NoChat == [called |-> FALSE, statement |-> <<>>, execs |-> <<>>]

NoStream == Stream("unused", "", 0, 0, <<>>, NoChat, None)

Init ==
    /\ now = 0
    /\ pending_approvals = [i \in {} |-> NewRequest(i, <<>>, 0)]
    /\ uuid_counter = 0
    /\ checkpoints = [t \in AllThreads |-> NoCheckpoint]
    /\ wf = IdleWf
    /\ last = LedgerCall("init", NoId, FALSE, "", "", "")
    /\ successes = [i \in Ids |-> <<>>]
    /\ exec_count = [i \in Ids |-> 0]
    /\ callers = [c \in Callers |-> IdleCaller]
    /\ active_sessions = [s \in {} |-> Session("", TRUE)]
    /\ streams = [s \in Sessions |-> NoStream]
    /\ issued = [i \in Ids |-> None]

----------------------------------------------------------------------------
(* The clock and the approval endpoints (src/main.py), each one atomic call *)
(* of the manager.  No request is served while a chat call is in flight:   *)
(* chat is a synchronous call inside an async endpoint.                    *)

Idle == wf.node = "idle"

Tick ==
    /\ now + ClockStep <= MaxTime
    /\ now' = now + ClockStep
    /\ last' = LedgerCall("tick", NoId, FALSE, "", "", "")
    /\ UNCHANGED <<issued, pending_approvals, uuid_counter, checkpoints, wf,
                   successes, exec_count, callers,
                   active_sessions, streams>>

\* POST /approval/request
CreateApprovalRequest ==
    /\ Idle
    /\ uuid_counter < MaxIds
    /\ \E sql_query \in RequestStatements :
         LET r == create_approval_request(pending_approvals, uuid_counter + 1,
                                          sql_query, now)
         IN  /\ pending_approvals' = r.pa
             /\ issued' = [issued EXCEPT ![r.res.approval_id] =
                               r.pa[r.res.approval_id].expires_at]
             /\ last' = LedgerCall("create", r.res.approval_id, TRUE, "", PENDING, "")
    /\ uuid_counter' = uuid_counter + 1
    /\ UNCHANGED <<now, checkpoints, wf, successes, exec_count, callers,
                   active_sessions, streams>>

\* GET /approval/{approval_id}
GetApprovalStatus ==
    /\ Idle
    /\ \E approval_id \in Ids :
         LET r == get_approval_status(pending_approvals, approval_id, now)
         IN  /\ pending_approvals' = r.pa
             /\ last' = LedgerCall("status", approval_id, r.res.error = "",
                                   r.res.error, r.res.status,
                                   StatusOf(pending_approvals, approval_id))
    /\ UNCHANGED <<now, issued, uuid_counter, checkpoints, wf, successes, exec_count, callers,
                   active_sessions, streams>>

\* POST /approval/{approval_id}/approve, with approved_by among actors
ApproveOperation(actors) ==
    /\ Idle
    /\ \E approval_id \in Ids, approved_by \in actors :
         LET r == approve_operation(pending_approvals, approval_id, approved_by, now)
         IN  /\ pending_approvals' = r.pa
             /\ last' = LedgerCall("approve", approval_id, r.res.success, r.res.error,
                                   StatusOf(r.pa, approval_id),
                                   StatusOf(pending_approvals, approval_id))
             /\ successes' = IF r.res.success
                             THEN [successes EXCEPT
                                     ![approval_id] = Append(@, "approve")]
                             ELSE successes
    /\ UNCHANGED <<now, issued, uuid_counter, checkpoints, wf, exec_count, callers,
                   active_sessions, streams>>

\* POST /approval/{approval_id}/deny, with denied_by among actors
DenyOperation(actors) ==
    /\ Idle
    /\ \E approval_id \in Ids, denied_by \in actors :
         LET r == deny_operation(pending_approvals, approval_id, denied_by, now)
         IN  /\ pending_approvals' = r.pa
             /\ last' = LedgerCall("deny", approval_id, r.res.success, r.res.error,
                                   StatusOf(r.pa, approval_id),
                                   StatusOf(pending_approvals, approval_id))
             /\ successes' = IF r.res.success
                             THEN [successes EXCEPT
                                     ![approval_id] = Append(@, "deny")]
                             ELSE successes
    /\ UNCHANGED <<now, issued, uuid_counter, checkpoints, wf, exec_count, callers,
                   active_sessions, streams>>

\* GET /approval/pending reaches get_approval_status("pending") in the router's
\* order; the manager's get_pending_approvals is modelled as a call of its own
GetPendingApprovals ==
    /\ Idle
    /\ LET r == get_pending_approvals(pending_approvals, now)
       IN  /\ pending_approvals' = r.pa
           /\ last' = [LedgerCall("pending", NoId, TRUE, "", "", "")
                          EXCEPT !.count = r.res.count,
                                 !.pending = r.res.pending_approvals]
    /\ UNCHANGED <<now, issued, uuid_counter, checkpoints, wf, successes, exec_count, callers,
                   active_sessions, streams>>

\* POST /approval/cleanup
CleanupExpiredApprovals ==
    /\ Idle
    /\ LET r == cleanup_expired_approvals(pending_approvals, now)
       IN  /\ pending_approvals' = r.pa
           /\ last' = [LedgerCall("cleanup", NoId, TRUE, "", "", "")
                          EXCEPT !.count = r.res]
    /\ UNCHANGED <<now, issued, uuid_counter, checkpoints, wf, successes, exec_count, callers,
                   active_sessions, streams>>

----------------------------------------------------------------------------
(* DatabaseAgent.chat: the resume path                                     *)

Sentinels == {"__APPROVED__", "__DENIED__"}

\* The resume path executing the stored statement whatever the ledger's
\* status of the request is
ChatResume_any_status(cp, pa, t, ok) ==
    LET approval_id == cp.values.approval_id
        st == get_approval_status(pa, approval_id, t)
        sql_query == cp.values.context.sql_executed
        none == [pa |-> pa, execs |-> <<>>,
                 response |-> Resp("no_pending_approval", <<>>, NoId)]
    IN  IF ~cp.exists \/ approval_id = NoId THEN none
        ELSE IF cp.values.context.present /\ Len(sql_query) > 0
          THEN [pa |-> st.pa,
                execs |-> <<Execution(sql_query, approval_id, st.pa)>>,
                response |-> Resp(IF ok THEN "approved_executed"
                                  ELSE "approved_failed", sql_query, NoId)]
        ELSE [none EXCEPT !.pa = st.pa]

\* chat(user_input in ['__APPROVED__', '__DENIED__'], thread_id): reads the
\* thread's checkpoint and the ledger, executes the stored statement when the
\* ledger says approved, and returns without writing the checkpoint.
\* ok is the outcome of execute_sql_query, were it called.
ChatResume(cp, pa, t, ok) ==
    LET approval_id == cp.values.approval_id
        st == get_approval_status(pa, approval_id, t)
        sql_query == cp.values.context.sql_executed
        none == [pa |-> pa, execs |-> <<>>,
                 response |-> Resp("no_pending_approval", <<>>, NoId)]
    IN  IF ~cp.exists \/ approval_id = NoId THEN none
        ELSE IF st.res.status = APPROVED
          THEN IF ~cp.values.context.present
                 THEN [pa |-> st.pa, execs |-> <<>>,
                       response |-> Resp("error", <<>>, NoId)]
               ELSE IF Len(sql_query) > 0
                 THEN [pa |-> st.pa,
                       execs |-> <<Execution(sql_query, approval_id, st.pa)>>,
                       response |-> Resp(IF ok THEN "approved_executed"
                                         ELSE "approved_failed", sql_query, NoId)]
               ELSE [none EXCEPT !.pa = st.pa]
        ELSE IF st.res.status = DENIED
          THEN [pa |-> st.pa, execs |-> <<>>,
                response |-> Resp("cancelled", <<>>, NoId)]
        ELSE [none EXCEPT !.pa = st.pa]

ResumeOn(threads) ==
    /\ Idle
    /\ \E thread_id \in threads, user_input \in Sentinels, ok \in BOOLEAN :
         LET cp == checkpoints[thread_id]
             r == ChatResume(cp, pending_approvals, now, ok)
             approval_id == IF cp.exists THEN cp.values.approval_id ELSE NoId
         IN  /\ r.execs # <<>> => exec_count[approval_id] < MaxExec
             /\ r.execs = <<>> => ok
             /\ pending_approvals' = r.pa
             /\ exec_count' = IF r.execs # <<>>
                              THEN [exec_count EXCEPT ![approval_id] = @ + 1]
                              ELSE exec_count
             /\ last' = Last("chat", thread_id, user_input, approval_id,
                             TRUE, "", StatusOf(r.pa, approval_id),
                             StatusOf(pending_approvals, approval_id),
                             r.response, r.execs, 0, 0)
    /\ UNCHANGED <<now, issued, uuid_counter, checkpoints, wf, successes, callers,
                   active_sessions, streams>>

\* POST /chat with a sentinel, on a thread the caller names
Resume == ResumeOn(Threads)

----------------------------------------------------------------------------
(* DatabaseAgent.chat: an ordinary message runs the workflow, one node at  *)
(* a time.  wf.state is the state the nodes read and return.               *)

\* The ordinary messages sent so far, over all threads
RECURSIVE Turns(_, _)
Turns(cps, threads) ==
    IF threads = {} THEN 0
    ELSE LET t == CHOOSE x \in threads : TRUE
             messages == cps[t].values.messages
         IN  Cardinality({ i \in 1..Len(messages) : messages[i].role = "user" })
                + Turns(cps, threads \ {t})

\* initial_state leaving the thread's context and approval id as the last
\* step stored them
Invoke_keeps_pending(thread_id) ==
    /\ wf' = [node |-> "router",
              thread |-> thread_id,
              requested |-> thread_id,
              state |-> ConversationState(
                  Append(checkpoints[thread_id].values.messages, HumanMessage),
                  "None",
                  checkpoints[thread_id].values.context,
                  "None",
                  checkpoints[thread_id].values.approval_pending,
                  checkpoints[thread_id].values.approval_id),
              execs |-> <<>>,
              created |-> 0,
              answer |-> "",
              gen |-> "",
              exec_ok |-> TRUE]
    /\ last' = Last("invoke", thread_id, "user", NoId, FALSE, "", "",
                    checkpoints[thread_id].values.context.operation_result.kind,
                    NoResp, <<>>, 0, 0)

\* initial_state: the new user message joins the thread's messages
\* (add_messages); every other key is overwritten with None.  The call's
\* record keeps, as before, the operation result the thread's persisted
\* context held when the step started.
InvokeAs(thread_id, requested) ==
    /\ wf' = [node |-> "router",
              thread |-> thread_id,
              requested |-> requested,
              state |-> ConversationState(
                  Append(checkpoints[thread_id].values.messages, HumanMessage),
                  "None", NoContext, "None", FALSE, NoId),
              execs |-> <<>>,
              created |-> 0,
              answer |-> "",
              gen |-> "",
              exec_ok |-> TRUE]
    /\ last' = Last("invoke", thread_id, "user", NoId, FALSE, "", "",
                    checkpoints[thread_id].values.context.operation_result.kind,
                    NoResp, <<>>, 0, 0)

\* chat called with the thread_id of the request
Invoke(thread_id) == InvokeAs(thread_id, thread_id)

\* POST /chat with an ordinary message
ChatStart ==
    /\ Idle
    /\ Turns(checkpoints, Threads) < MaxTurns
    /\ \E thread_id \in Threads : Invoke(thread_id)
    /\ UNCHANGED <<now, issued, pending_approvals, uuid_counter, checkpoints,
                   successes, exec_count, callers,
                   active_sessions, streams>>

\* The value chat returns: the last AIMessage of the final state
LastAIMessage(messages) ==
    LET ais == { i \in 1..Len(messages) : messages[i].role = "assistant" }
    IN  IF ais = {} THEN Resp("could_not_process", <<>>, NoId)
        ELSE messages[CHOOSE i \in ais : \A j \in ais : j <= i].content

\* thread_id = request.thread_id or "default" of the chat endpoints
ReportedThread(requested) ==
    IF requested = "None" THEN DefaultThread ELSE requested

\* workflow.invoke returns at END: the final state is the thread's checkpoint,
\* and the endpoint reports the thread_id of its response
Finish(state) ==
    /\ checkpoints' = [checkpoints EXCEPT ![wf.thread] =
                          [exists |-> TRUE, values |-> state]]
    /\ last' = [Last("chat", wf.thread, "user", NoId, TRUE, "", "", last.before,
                     LastAIMessage(state.messages), wf'.execs, wf'.created, 0)
                   EXCEPT !.reported = ReportedThread(wf.requested)]

\* What the routing LLM call yields: one of the three action names, any
\* other text, or an exception
RouterAnswers == {"database_operation", "response", "end", "other", "raise"}

\* The router taking database_operation when the answer is not an action name
_llm_router_default_operate(answer) ==
    IF answer \in {"database_operation", "response", "end"}
    THEN answer ELSE "database_operation"

\* _llm_router: state["next_action"]
_llm_router(answer) ==
    IF answer \in {"database_operation", "response", "end"}
    THEN answer ELSE "response"

\* The router node and the edge _should_continue
LlmRouter ==
    /\ wf.node = "router"
    /\ \E answer \in RouterAnswers :
         LET action == _llm_router(answer)
             state == [wf.state EXCEPT !.next_action = action]
         IN  IF action = "end"
             THEN /\ wf' = [IdleWf EXCEPT !.execs = wf.execs, !.created = wf.created,
                                          !.answer = answer]
                  /\ Finish(state)
             ELSE /\ wf' = [wf EXCEPT !.node = action, !.state = state,
                                      !.answer = answer]
                  /\ UNCHANGED <<checkpoints, last>>
    /\ UNCHANGED <<now, issued, pending_approvals, uuid_counter, successes, exec_count, callers,
                   active_sessions, streams>>

\* What statement generation yields: no table name detected, an exception
\* (the LLM call, or no SQL in its output), or a statement
Generated ==
    {[kind |-> "no_table", sql |-> <<>>], [kind |-> "raise", sql |-> <<>>]}
        \cup {[kind |-> "sql", sql |-> sql_query] : sql_query \in Statements}

\* The except clause of _database_operation leaving the state as it found it
OperationError_unrecorded(state) == state

\* The except clause of _database_operation: the error text is the context
OperationError(state) ==
    [state EXCEPT !.context = Context(Resp("error", <<>>, NoId), <<>>, FALSE, NoId)]

\* _database_operation: the new context, human_approval and the statements it
\* passes to execute_sql_query.  gen is the outcome of statement generation,
\* ok the outcome of execute_sql_query.
_database_operation(state, gen, ok) ==
    IF state.human_approval = "True" /\ state.context.present
       /\ Len(state.context.sql_executed) > 0
      THEN [state |-> [state EXCEPT
                         !.context = Context(
                             Resp(IF ok THEN "approved_executed" ELSE "approved_failed",
                                  state.context.sql_executed, NoId),
                             state.context.sql_executed, FALSE, NoId),
                         !.human_approval = "None"],
            execs |-> <<state.context.sql_executed>>,
            gen |-> ""]
    ELSE IF state.human_approval = "True" /\ ~state.context.present
      THEN [state |-> OperationError(state),
            execs |-> <<>>,
            gen |-> ""]
    ELSE IF state.human_approval = "False"
      THEN [state |-> [state EXCEPT
                         !.context = Context(Resp("cancelled", <<>>, NoId),
                                             <<>>, FALSE, NoId),
                         !.human_approval = "None"],
            execs |-> <<>>,
            gen |-> ""]
    ELSE IF gen.kind = "no_table"
      THEN [state |-> [state EXCEPT
                         !.context = Context(Resp("no_table", <<>>, NoId),
                                             <<>>, FALSE, NoId)],
            execs |-> <<>>,
            gen |-> gen.kind]
    ELSE IF gen.kind = "raise"
      THEN [state |-> OperationError(state),
            execs |-> <<>>,
            gen |-> gen.kind]
    ELSE IF is_dangerous_operation(gen.sql)
      THEN [state |-> [state EXCEPT
                         !.context = Context(Resp("dangerous_detected", gen.sql, NoId),
                                             gen.sql, TRUE, NoId)],
            execs |-> <<>>,
            gen |-> gen.kind]
    ELSE [state |-> [state EXCEPT
                       !.context = Context(
                           Resp(IF ok THEN "executed" ELSE "execution_failed",
                                gen.sql, NoId),
                           gen.sql, FALSE, NoId)],
          execs |-> <<gen.sql>>,
          gen |-> gen.kind]

\* The edge out of database_operation leading to the gate for every statement
_needs_human_approval_always(state) ==
    IF Len(state.context.sql_executed) > 0
    THEN "human_approval" ELSE "response"

_needs_human_approval(state) ==
    IF state.context.requires_approval /\ Len(state.context.sql_executed) > 0
    THEN "human_approval" ELSE "response"

DatabaseOperation ==
    /\ wf.node = "database_operation"
    /\ \E gen \in Generated, ok \in BOOLEAN :
         LET r == _database_operation(wf.state, gen, ok)
         IN  /\ r.execs = <<>> => ok
             /\ is_dangerous_operation(gen.sql) => uuid_counter < MaxIds
             /\ wf' = [wf EXCEPT
                         !.node = _needs_human_approval(r.state),
                         !.state = r.state,
                         !.gen = r.gen,
                         !.exec_ok = ok,
                         !.execs = wf.execs \o
                             [i \in 1..Len(r.execs) |->
                                 Execution(r.execs[i], NoId, pending_approvals)]]
    /\ UNCHANGED <<now, issued, pending_approvals, uuid_counter, checkpoints, last,
                   successes, exec_count, callers,
                   active_sessions, streams>>

\* _human_approval: creates the approval request for context["sql_executed"]
_human_approval(state, pa, approval_id, t) ==
    LET pending_query == IF state.context.present
                         THEN state.context.sql_executed ELSE <<>>
    IN  IF Len(pending_query) = 0
          THEN [state |-> [state EXCEPT !.human_approval = "False"],
                pa |-> pa, created |-> 0]
        ELSE IF ~is_dangerous_operation(pending_query)
          THEN [state |-> [state EXCEPT !.human_approval = "True"],
                pa |-> pa, created |-> 0]
        ELSE [state |-> [state EXCEPT
                           !.approval_id = approval_id,
                           !.context = Context(
                               Resp("approval_message", pending_query, approval_id),
                               pending_query, TRUE, approval_id),
                           !.human_approval = "None",
                           !.approval_pending = TRUE],
              pa |-> create_approval_request(pa, approval_id, pending_query, t).pa,
              created |-> 1]

\* The history of the requests the human_approval node has created: the
\* expires_at the ledger holds for the new id
Issue(created, approval_id, pa) ==
    IF created = 1
    THEN [issued EXCEPT ![approval_id] = pa[approval_id].expires_at]
    ELSE issued

\* The edge out of human_approval leading back into human_approval while the
\* request is pending
_handle_human_decision_repoll(state, pa, t) ==
    LET st == get_approval_status(pa, state.approval_id, t)
    IN  IF state.approval_id = NoId THEN [next |-> "response", pa |-> pa]
        ELSE IF st.res.status = APPROVED
          THEN [next |-> "database_operation", pa |-> st.pa]
        ELSE IF st.res.status = PENDING
          THEN [next |-> "human_approval", pa |-> st.pa]
        ELSE [next |-> "response", pa |-> st.pa]

\* _handle_human_decision: the edge out of human_approval.  What it assigns to
\* its copy of the state is not written back; its ledger read is.
_handle_human_decision(state, pa, t) ==
    LET st == get_approval_status(pa, state.approval_id, t)
    IN  IF state.approval_id = NoId THEN [next |-> "response", pa |-> pa]
        ELSE IF st.res.status = APPROVED
          THEN [next |-> "database_operation", pa |-> st.pa]
        ELSE [next |-> "response", pa |-> st.pa]

HumanApproval ==
    /\ wf.node = "human_approval"
    /\ LET r == _human_approval(wf.state, pending_approvals, uuid_counter + 1, now)
           d == _handle_human_decision(r.state, r.pa, now)
       IN  /\ r.created = 1 => uuid_counter < MaxIds
           /\ pending_approvals' = d.pa
           /\ uuid_counter' = uuid_counter + r.created
           /\ issued' = Issue(r.created, uuid_counter + 1, r.pa)
           /\ wf' = [wf EXCEPT !.node = d.next,
                               !.state = r.state,
                               !.created = wf.created + r.created]
    /\ UNCHANGED <<now, checkpoints, last, successes, exec_count, callers,
                   active_sessions, streams>>

\* _generate_response: the approval message as it stands, or the LLM's text
\* (llm_ok = FALSE: the LLM call raises and the error text is the message)
_generate_response(state, llm_ok) ==
    IF state.approval_pending /\ state.context.requires_approval
      THEN [state EXCEPT !.messages =
               Append(@, AIMessage(state.context.operation_result))]
    ELSE [state EXCEPT !.messages =
               Append(@, AIMessage(Resp(IF llm_ok THEN "llm_response"
                                        ELSE "llm_error", <<>>, NoId)))]

GenerateResponse ==
    /\ wf.node = "response"
    /\ \E llm_ok \in BOOLEAN :
         /\ (wf.state.approval_pending /\ wf.state.context.requires_approval) => llm_ok
         /\ wf' = [IdleWf EXCEPT !.execs = wf.execs, !.created = wf.created,
                                 !.answer = wf.answer, !.gen = wf.gen,
                                 !.exec_ok = wf.exec_ok]
         /\ Finish(_generate_response(wf.state, llm_ok))
    /\ UNCHANGED <<now, issued, pending_approvals, uuid_counter, successes, exec_count, callers,
                   active_sessions, streams>>

----------------------------------------------------------------------------

\* The workflow with the approval endpoints its threads depend on; decisions
\* carry the endpoints' default actor
Next ==
    \/ Tick
    \/ GetApprovalStatus
    \/ ApproveOperation({DefaultActor})
    \/ DenyOperation({DefaultActor})
    \/ GetPendingApprovals
    \/ CleanupExpiredApprovals
    \/ Resume
    \/ ChatStart
    \/ LlmRouter
    \/ DatabaseOperation
    \/ HumanApproval
    \/ GenerateResponse

Spec == Init /\ [][Next]_vars

----------------------------------------------------------------------------
(* One thread taken through several chat steps, with the decisions on its  *)
(* requests and its resume steps                                           *)

TurnThreads == {"t1"}

\* POST /chat with an ordinary message on a thread that may have history
ChatAgain ==
    /\ Idle
    /\ \E thread_id \in TurnThreads :
         /\ Turns(checkpoints, {thread_id}) < MaxThreadTurns
         /\ Invoke(thread_id)
    /\ UNCHANGED <<now, issued, pending_approvals, uuid_counter, checkpoints,
                   successes, exec_count, callers,
                   active_sessions, streams>>

NextTurns ==
    \/ ChatAgain
    \/ LlmRouter
    \/ DatabaseOperation
    \/ HumanApproval
    \/ GenerateResponse
    \/ ApproveOperation({DefaultActor})
    \/ DenyOperation({DefaultActor})
    \/ Resume

SpecTurns == Init /\ [][NextTurns]_vars

----------------------------------------------------------------------------
(* POST /chat with and without a thread_id, and the resume steps a caller  *)
(* sends with the thread_id the endpoint reported                          *)

\* POST /chat with an ordinary message and no thread_id: chat draws a new
\* thread id
ChatWithoutThread ==
    /\ Idle
    /\ \E thread_id \in GeneratedThreads :
         /\ ~checkpoints[thread_id].exists
         /\ InvokeAs(thread_id, "None")
    /\ UNCHANGED <<now, issued, pending_approvals, uuid_counter, checkpoints,
                   successes, exec_count, callers,
                   active_sessions, streams>>

NextReport ==
    \/ ChatStart
    \/ ChatWithoutThread
    \/ LlmRouter
    \/ DatabaseOperation
    \/ HumanApproval
    \/ GenerateResponse
    \/ ApproveOperation({DefaultActor})
    \/ ResumeOn(AllThreads)

SpecReport == Init /\ [][NextReport]_vars

----------------------------------------------------------------------------
(* The workflow with callers of the manager that do not wait for the chat  *)
(* call: a decision may land between any two nodes, and between the        *)
(* human_approval node and the edge that reads the ledger.  The node       *)
(* "human_decision" is that edge waiting to be evaluated.                  *)

\* The human_approval node alone
HumanApprovalNode ==
    /\ wf.node = "human_approval"
    /\ LET r == _human_approval(wf.state, pending_approvals, uuid_counter + 1, now)
       IN  /\ r.created = 1 => uuid_counter < MaxIds
           /\ pending_approvals' = r.pa
           /\ uuid_counter' = uuid_counter + r.created
           /\ issued' = Issue(r.created, uuid_counter + 1, r.pa)
           /\ wf' = [wf EXCEPT !.node = "human_decision",
                               !.state = r.state,
                               !.created = wf.created + r.created]
    /\ UNCHANGED <<now, checkpoints, last, successes, exec_count, callers,
                   active_sessions, streams>>

\* The edge _handle_human_decision alone
HandleHumanDecision ==
    /\ wf.node = "human_decision"
    /\ LET d == _handle_human_decision(wf.state, pending_approvals, now)
       IN  /\ pending_approvals' = d.pa
           /\ wf' = [wf EXCEPT !.node = d.next]
    /\ UNCHANGED <<now, issued, uuid_counter, checkpoints, last, successes, exec_count,
                   callers, active_sessions, streams>>

\* approve_operation or deny_operation called while a chat step is running
ConcurrentDecision ==
    /\ ~Idle
    /\ \E approval_id \in Ids, op \in {"approve", "deny"} :
         LET r == IF op = "approve"
                  THEN approve_operation(pending_approvals, approval_id,
                                         DefaultActor, now)
                  ELSE deny_operation(pending_approvals, approval_id,
                                      DefaultActor, now)
         IN  /\ approval_id \in DOMAIN pending_approvals
             /\ pending_approvals' = r.pa
             /\ successes' = IF r.res.success
                             THEN [successes EXCEPT ![approval_id] = Append(@, op)]
                             ELSE successes
    /\ UNCHANGED <<now, issued, uuid_counter, checkpoints, wf, last, exec_count, callers,
                   active_sessions, streams>>

StepNode ==
    \/ LlmRouter
    \/ DatabaseOperation
    \/ HumanApprovalNode
    \/ HandleHumanDecision
    \/ GenerateResponse

NextStep ==
    \/ ChatStart
    \/ LlmRouter
    \/ DatabaseOperation
    \/ HumanApprovalNode
    \/ HandleHumanDecision
    \/ GenerateResponse
    \/ ConcurrentDecision

\* workflow.invoke runs the graph to its end: a node that can run does
SpecStep == Init /\ [][NextStep]_vars /\ WF_vars(StepNode)

----------------------------------------------------------------------------
(* The manager's methods statement by statement, for callers that run      *)
(* concurrently.  No method of SimpleApprovalManager takes a lock.         *)

Goto(c, pc) == callers' = [callers EXCEPT ![c].pc = pc]

Return(c, result) ==
    callers' = [callers EXCEPT ![c].pc = "done", ![c].result = result]

\* A caller enters approve_operation, deny_operation or get_approval_status
CallBegin(c) ==
    /\ callers[c].pc = "idle"
    /\ \E op \in {"approve", "deny", "status"}, approval_id \in Ids :
         callers' = [callers EXCEPT ![c] = Caller("lookup", op, approval_id, "")]
    /\ UNCHANGED <<now, issued, pending_approvals, uuid_counter, checkpoints, wf, last,
                   successes, exec_count,
                   active_sessions, streams>>

\* if approval_id not in self.pending_approvals: return not found
\* approval = self.pending_approvals[approval_id]
Lookup(c) ==
    /\ callers[c].pc = "lookup"
    /\ IF callers[c].approval_id \notin DOMAIN pending_approvals
         THEN Return(c, "not_found")
       ELSE IF callers[c].op = "status" THEN Goto(c, "check_expired")
       ELSE Goto(c, "check_status")
    /\ UNCHANGED <<now, issued, pending_approvals, uuid_counter, checkpoints, wf, last,
                   successes, exec_count,
                   active_sessions, streams>>

\* if approval["status"] != ApprovalStatus.PENDING.value: return not pending
CheckStatus(c) ==
    /\ callers[c].pc = "check_status"
    /\ IF pending_approvals[callers[c].approval_id].status # PENDING
         THEN Return(c, "not_pending")
       ELSE IF callers[c].op = "approve" THEN Goto(c, "check_expired")
       ELSE Goto(c, "write_status")
    /\ UNCHANGED <<now, issued, pending_approvals, uuid_counter, checkpoints, wf, last,
                   successes, exec_count,
                   active_sessions, streams>>

\* if self._is_expired(approval):
CheckExpired(c) ==
    /\ callers[c].pc = "check_expired"
    /\ IF _is_expired(pending_approvals[callers[c].approval_id], now)
         THEN Goto(c, "write_expired")
       ELSE IF callers[c].op = "approve" THEN Goto(c, "write_status")
       ELSE Goto(c, "read_status")
    /\ UNCHANGED <<now, issued, pending_approvals, uuid_counter, checkpoints, wf, last,
                   successes, exec_count,
                   active_sessions, streams>>

\* approval["status"] = ApprovalStatus.EXPIRED.value; return expired
WriteExpired(c) ==
    /\ callers[c].pc = "write_expired"
    /\ pending_approvals' =
         [pending_approvals EXCEPT ![callers[c].approval_id].status = EXPIRED]
    /\ Return(c, EXPIRED)
    /\ UNCHANGED <<now, issued, uuid_counter, checkpoints, wf, last, successes, exec_count,
                   active_sessions, streams>>

\* get_approval_status: return approval["status"]
ReadStatus(c) ==
    /\ callers[c].pc = "read_status"
    /\ Return(c, pending_approvals[callers[c].approval_id].status)
    /\ UNCHANGED <<now, issued, pending_approvals, uuid_counter, checkpoints, wf, last,
                   successes, exec_count,
                   active_sessions, streams>>

\* approval["status"] = ApprovalStatus.APPROVED.value (DENIED.value)
WriteStatus(c) ==
    /\ callers[c].pc = "write_status"
    /\ pending_approvals' =
         [pending_approvals EXCEPT ![callers[c].approval_id].status =
             IF callers[c].op = "approve" THEN APPROVED ELSE DENIED]
    /\ Goto(c, "write_at")
    /\ UNCHANGED <<now, issued, uuid_counter, checkpoints, wf, last, successes, exec_count,
                   active_sessions, streams>>

\* approval["approved_at"] = datetime.now().isoformat() (denied_at)
WriteAt(c) ==
    /\ callers[c].pc = "write_at"
    /\ pending_approvals' =
         IF callers[c].op = "approve"
         THEN [pending_approvals EXCEPT ![callers[c].approval_id].approved_at = now]
         ELSE [pending_approvals EXCEPT ![callers[c].approval_id].denied_at = now]
    /\ Goto(c, "write_by")
    /\ UNCHANGED <<now, issued, uuid_counter, checkpoints, wf, last, successes, exec_count,
                   active_sessions, streams>>

\* approval["approved_by"] = approved_by; return success
WriteBy(c) ==
    /\ callers[c].pc = "write_by"
    /\ pending_approvals' =
         [pending_approvals EXCEPT ![callers[c].approval_id].approved_by = DefaultActor]
    /\ Return(c, "success")
    /\ successes' = [successes EXCEPT
                        ![callers[c].approval_id] = Append(@, callers[c].op)]
    /\ UNCHANGED <<now, issued, uuid_counter, checkpoints, wf, last, exec_count,
                   active_sessions, streams>>

\* The caller has its answer and may call again
CallEnd(c) ==
    /\ callers[c].pc = "done"
    /\ callers' = [callers EXCEPT ![c] = IdleCaller]
    /\ UNCHANGED <<now, issued, pending_approvals, uuid_counter, checkpoints, wf, last,
                   successes, exec_count,
                   active_sessions, streams>>

\* The requests the concurrent callers decide on are created first
CreateConc ==
    /\ uuid_counter < MaxConcIds
    /\ CreateApprovalRequest

NextConc ==
    \/ Tick
    \/ CreateConc
    \/ \E c \in Callers : CallBegin(c)
    \/ \E c \in Callers : Lookup(c)
    \/ \E c \in Callers : CheckStatus(c)
    \/ \E c \in Callers : CheckExpired(c)
    \/ \E c \in Callers : WriteExpired(c)
    \/ \E c \in Callers : ReadStatus(c)
    \/ \E c \in Callers : WriteStatus(c)
    \/ \E c \in Callers : WriteAt(c)
    \/ \E c \in Callers : WriteBy(c)
    \/ \E c \in Callers : CallEnd(c)

SpecConc == Init /\ [][NextConc]_vars

----------------------------------------------------------------------------
\* The ledger alone, driven through its endpoints by any actor
NextLedger ==
    \/ Tick
    \/ CreateApprovalRequest
    \/ GetApprovalStatus
    \/ ApproveOperation(Actors)
    \/ DenyOperation(Actors)
    \/ GetPendingApprovals
    \/ CleanupExpiredApprovals

SpecLedger == Init /\ [][NextLedger]_vars

----------------------------------------------------------------------------
(* POST /chat/stream and POST /stop (src/main.py).  generate_stream runs    *)
(* on the event loop: between two suspension points (a yield, the sleep)   *)
(* nothing else runs, and agent.chat is a synchronous call inside it.      *)

\* thread_id = request.thread_id or "default": the streaming requests share
\* one thread
StreamThreads == {"t1"}

\* No generator is inside agent.chat
NoChatInFlight == Idle /\ \A s \in Sessions : streams[s].pc # "chat"

IsActive(s) == s \in DOMAIN active_sessions /\ active_sessions[s].is_active

\* The test of generate_stream for an approval request, on the texts chat
\* returns
IsApprovalResponse(response) ==
    response.kind \in {"approval_message", "dangerous_detected", "no_pending_approval"}

\* finally: del active_sessions[session_id]
Unregister(s) ==
    active_sessions' = [x \in DOMAIN active_sessions \ {s} |-> active_sessions[x]]

\* chat_stream: draws the session id, registers the session and returns the
\* StreamingResponse
StreamRequest ==
    /\ NoChatInFlight
    /\ \E s \in Sessions, thread_id \in StreamThreads :
         /\ streams[s].pc = "unused"
         /\ active_sessions' =
              [x \in DOMAIN active_sessions \cup {s} |->
                  IF x = s THEN Session(thread_id, TRUE) ELSE active_sessions[x]]
         /\ streams' = [streams EXCEPT ![s] =
                           Stream("registered", thread_id, 0, 0, <<>>, NoChat, None)]
         /\ last' = Last("stream", thread_id, "user", NoId, TRUE, "", "", "",
                         NoResp, <<>>, 0, 0)
    /\ UNCHANGED <<now, issued, pending_approvals, uuid_counter, checkpoints, wf,
                   successes, exec_count, callers>>

\* generate_stream calling agent.chat only for a session that is still active
StreamChat_if_active(s) ==
    /\ streams[s].pc = "registered"
    /\ NoChatInFlight
    /\ IF IsActive(s)
       THEN /\ Invoke(streams[s].thread_id)
            /\ streams' = [streams EXCEPT ![s].pc = "chat"]
       ELSE /\ streams' = [streams EXCEPT ![s].pc = "yield_final",
                                          ![s].signals = Append(@, "stopped")]
            /\ UNCHANGED <<wf, last>>
    /\ UNCHANGED <<now, issued, pending_approvals, uuid_counter, checkpoints,
                   successes, exec_count, callers, active_sessions>>

\* generate_stream starts: response = agent.chat(request.query, thread_id).
\* agent_ok = FALSE: the call raises (the agent was not initialised) and the
\* error chunk is yielded.
StreamChat(s) ==
    /\ streams[s].pc = "registered"
    /\ NoChatInFlight
    /\ \E agent_ok \in BOOLEAN :
         IF agent_ok
         THEN /\ Invoke(streams[s].thread_id)
              /\ streams' = [streams EXCEPT ![s].pc = "chat"]
         ELSE /\ streams' = [streams EXCEPT ![s].pc = "yield_final",
                                            ![s].signals = Append(@, "error")]
              /\ UNCHANGED <<wf, last>>
    /\ UNCHANGED <<now, issued, pending_approvals, uuid_counter, checkpoints,
                   successes, exec_count, callers, active_sessions>>

\* The head of the loop with k text chunks delivered out of words: the check
\* before the chunk, then the chunk; after the last chunk the session is
\* marked completed and the finally clause removes it
LoopHead(s, stream, k) ==
    IF k >= stream.words
      THEN /\ streams' = [streams EXCEPT ![s] = [stream EXCEPT !.pc = "done"]]
           /\ Unregister(s)
    ELSE IF ~IsActive(s)
      THEN /\ streams' = [streams EXCEPT ![s] =
                             [stream EXCEPT !.pc = "yield_final",
                                            !.signals = Append(@, "stopped")]]
           /\ UNCHANGED active_sessions
    ELSE /\ streams' = [streams EXCEPT ![s] =
                           [stream EXCEPT !.pc = "yield_text",
                                          !.delivered = k + 1,
                                          !.signals = Append(@, "text")]]
         /\ UNCHANGED active_sessions

\* agent.chat has returned: the approval chunk, or the first pass of the loop
StreamResponse(s) ==
    /\ streams[s].pc = "chat"
    /\ Idle
    /\ LET chat == [called |-> TRUE,
                    statement |-> checkpoints[last.thread].values.context.sql_executed,
                    execs |-> last.execs]
       IN  IF IsApprovalResponse(last.response)
           THEN /\ streams' = [streams EXCEPT
                                 ![s].pc = "yield_final",
                                 ![s].chat = chat,
                                 ![s].signals = Append(@, "human_approval")]
                /\ UNCHANGED active_sessions
           ELSE \E words \in 0..MaxChunks :
                   LoopHead(s, [streams[s] EXCEPT !.chat = chat, !.words = words], 0)
    /\ UNCHANGED <<now, issued, pending_approvals, uuid_counter, checkpoints, wf, last,
                   successes, exec_count, callers>>

\* Resumed after the yield of a text chunk: the check after the chunk, then
\* await asyncio.sleep
StreamAfterText(s) ==
    /\ streams[s].pc = "yield_text"
    /\ NoChatInFlight
    /\ IF ~IsActive(s)
       THEN streams' = [streams EXCEPT ![s].pc = "yield_final",
                                       ![s].signals = Append(@, "stopped")]
       ELSE streams' = [streams EXCEPT ![s].pc = "sleep"]
    /\ UNCHANGED <<now, issued, pending_approvals, uuid_counter, checkpoints, wf, last,
                   successes, exec_count, callers, active_sessions>>

\* The next pass of the loop without the check before the chunk
StreamWake_unchecked(s) ==
    /\ streams[s].pc = "sleep"
    /\ NoChatInFlight
    /\ IF streams[s].delivered >= streams[s].words
       THEN /\ streams' = [streams EXCEPT ![s].pc = "done"]
            /\ Unregister(s)
       ELSE /\ streams' = [streams EXCEPT ![s].pc = "yield_text",
                                          ![s].delivered = @ + 1,
                                          ![s].signals = Append(@, "text")]
            /\ UNCHANGED active_sessions
    /\ UNCHANGED <<now, issued, pending_approvals, uuid_counter, checkpoints, wf, last,
                   successes, exec_count, callers>>

\* The sleep is over: the next pass of the loop
StreamWake(s) ==
    /\ streams[s].pc = "sleep"
    /\ NoChatInFlight
    /\ LoopHead(s, streams[s], streams[s].delivered)
    /\ UNCHANGED <<now, issued, pending_approvals, uuid_counter, checkpoints, wf, last,
                   successes, exec_count, callers>>

\* The generator returning without its finally clause
StreamClose_no_finally(s) ==
    /\ streams[s].pc = "yield_final"
    /\ NoChatInFlight
    /\ streams' = [streams EXCEPT ![s].pc = "done"]
    /\ UNCHANGED <<now, issued, pending_approvals, uuid_counter, checkpoints, wf, last,
                   successes, exec_count, callers, active_sessions>>

\* Resumed after the yield of a final chunk (approval, stopped, error): the
\* generator returns through its finally clause
StreamClose(s) ==
    /\ streams[s].pc = "yield_final"
    /\ NoChatInFlight
    /\ streams' = [streams EXCEPT ![s].pc = "done"]
    /\ Unregister(s)
    /\ UNCHANGED <<now, issued, pending_approvals, uuid_counter, checkpoints, wf, last,
                   successes, exec_count, callers>>

\* What stop_generation finds for a session id
SessionState(s) ==
    IF s \notin DOMAIN active_sessions THEN ""
    ELSE IF active_sessions[s].is_active THEN "active" ELSE "inactive"

\* POST /stop
StopGeneration ==
    /\ NoChatInFlight
    /\ \E s \in Sessions :
         IF s \in DOMAIN active_sessions
         THEN /\ active_sessions' = [active_sessions EXCEPT ![s].is_active = FALSE]
              /\ streams' = [streams EXCEPT ![s].stopped_at =
                                IF @ = None THEN streams[s].delivered ELSE @]
              /\ last' = Last("stop", "", s, NoId, TRUE, "", "inactive",
                              SessionState(s), NoResp, <<>>, 0, 0)
         ELSE /\ last' = Last("stop", "", s, NoId, FALSE, "not_found", "",
                              SessionState(s), NoResp, <<>>, 0, 0)
              /\ UNCHANGED <<active_sessions, streams>>
    /\ UNCHANGED <<now, issued, pending_approvals, uuid_counter, checkpoints, wf,
                   successes, exec_count, callers>>

StreamStep(s) ==
    \/ StreamChat(s)
    \/ StreamResponse(s)
    \/ StreamAfterText(s)
    \/ StreamWake(s)
    \/ StreamClose(s)

NextStream ==
    \/ StreamRequest
    \/ StopGeneration
    \/ \E s \in Sessions : StreamChat(s)
    \/ \E s \in Sessions : StreamResponse(s)
    \/ \E s \in Sessions : StreamAfterText(s)
    \/ \E s \in Sessions : StreamWake(s)
    \/ \E s \in Sessions : StreamClose(s)
    \/ LlmRouter
    \/ DatabaseOperation
    \/ HumanApproval
    \/ GenerateResponse

SpecStream == Init /\ [][NextStream]_vars

\* The event loop keeps serving: a generator that can go on does, and a
\* workflow in flight runs to its end
FairStream ==
    /\ \A s \in Sessions : WF_vars(StreamStep(s))
    /\ WF_vars(LlmRouter \/ DatabaseOperation \/ HumanApproval \/ GenerateResponse)

SpecStreamFair == SpecStream /\ FairStream

----------------------------------------------------------------------------
(* The classifier alone, applied to every statement over a lexicon         *)

Lexicon ==
    {"DROP", "drop", "DELETE", "FROM", "ALTER", "TABLE", "table", "TRUNCATE",
     "UPDATE", "SET", "WHERE", "1=1", "SELECT", "select", "INSERT", "INTO",
     "CREATE", "users"}

\* The sequences of at most n tokens
TokenSeqs(n) == UNION { [1..k -> Lexicon] : k \in 0..n }

\* Every short statement, and the UPDATE and SELECT forms too long to enumerate
ClassifierInputs ==
    TokenSeqs(MaxStmtLen) \cup
    { <<"UPDATE", "users", "SET", "x", "WHERE", "1=1">>,
      <<"update", "users", "SET", "x", "WHERE", "1", "=", "1">>,
      <<"UPDATE", "users", "SET", "x", "WHERE", "id=5">>,
      <<"UPDATE", "users", "SET", "x", "WHERE", "1=1", "AND", "id=5">>,
      <<"UPDATE", "SET", "x", "WHERE", "1=1">>,
      <<"UPDATE", "users", "SET", "WHERE", "1=1">>,
      <<"UPDATE", "users", "SET", "x">>,
      <<"SELECT", "*", "FROM", "users", "WHERE", "name", "=", "DROP", "TABLE">>,
      <<"select", "1", "FROM", "DELETE", "FROM", "users">>,
      <<"INSERT", "INTO", "users", "SELECT", "*", "FROM", "DROP">>,
      <<"SHOW", "TABLES">>,
      <<"DESCRIBE", "users">>,
      <<"EXPLAIN", "DELETE", "FROM", "users">> }

InitClassify ==
    /\ now = 0
    /\ pending_approvals = [i \in {} |-> NewRequest(i, <<>>, 0)]
    /\ uuid_counter = 0
    /\ checkpoints = [t \in AllThreads |-> NoCheckpoint]
    /\ wf = IdleWf
    /\ \E sql_query \in ClassifierInputs :
         last = Last("statement", "", "", NoId, FALSE, "", "", "",
                     Resp("", sql_query, NoId), <<>>, 0, 0)
    /\ successes = [i \in Ids |-> <<>>]
    /\ exec_count = [i \in Ids |-> 0]
    /\ callers = [c \in Callers |-> IdleCaller]
    /\ active_sessions = [s \in {} |-> Session("", TRUE)]
    /\ streams = [s \in Sessions |-> NoStream]
    /\ issued = [i \in Ids |-> None]

\* simple_approval_manager.is_dangerous_operation(sql_query)
Classify ==
    /\ last.op = "statement"
    /\ last' = [last EXCEPT !.op = "classified",
                            !.success = is_dangerous_operation(last.response.sql)]
    /\ UNCHANGED <<now, issued, pending_approvals, uuid_counter, checkpoints, wf,
                   successes, exec_count, callers,
                   active_sessions, streams>>

NextClassify == Classify

SpecClassify == InitClassify /\ [][NextClassify]_vars

----------------------------------------------------------------------------
(* Properties *)

DangerousExecutionsApproved(execs) ==
    \A i \in 1..Len(execs) :
        is_dangerous_operation(execs[i].sql) =>
            /\ execs[i].approval_id # NoId
            /\ execs[i].status = APPROVED
            /\ execs[i].ledger_sql = execs[i].sql

IsResume == last.op = "chat" /\ last.input \in Sentinels /\ last.approval_id # NoId

IsDecide == last.op \in {"approve", "deny"}

\* C1: every dangerous statement passed to execute_sql_query runs under an
\* approval request that holds the same statement and has status APPROVED at
\* that moment; the ordinary chat step that generates a dangerous statement
\* executes nothing, creates the request and returns the approval message.
C1_DangerousNeedsApproval ==
    /\ DangerousExecutionsApproved(last.execs)
    /\ DangerousExecutionsApproved(wf.execs)
    /\ ( /\ last.op = "chat"
         /\ last.input = "user"
         /\ checkpoints[last.thread].values.context.present
         /\ is_dangerous_operation(
                checkpoints[last.thread].values.context.sql_executed) )
       => /\ last.execs = <<>>
          /\ last.created = 1
          /\ last.response.kind = "approval_message"
          /\ last.response.sql =
                checkpoints[last.thread].values.context.sql_executed

\* C1 witness: a resume step has executed a dangerous statement
C1_Witness ==
    /\ IsResume
    /\ Len(last.execs) = 1
    /\ is_dangerous_operation(last.execs[1].sql)
    /\ last.execs[1].status = APPROVED

\* C2: the statement of an approved request is executed at most once, however
\* many resume steps follow the approval.
C2_ExecutedAtMostOnce == \A approval_id \in Ids : exec_count[approval_id] <= 1

\* C3: when approve_operation has succeeded for the approval id of a thread,
\* the first resume step after it (none has executed before) executes exactly
\* one statement, the one recorded in the approval request.
C3_ApprovedResumeExecutesOnce ==
    ( /\ IsResume
      /\ successes[last.approval_id] = <<"approve">>
      /\ exec_count[last.approval_id] = Len(last.execs) )
    => /\ Len(last.execs) = 1
       /\ last.execs[1].sql = last.execs[1].ledger_sql

\* C4: at most one approve_operation or deny_operation call on an approval id
\* succeeds; a decide call on a request already decided fails as no longer
\* pending and leaves the status as it was.
C4_AtMostOneDecision ==
    /\ \A approval_id \in Ids : Len(successes[approval_id]) <= 1
    /\ ( /\ IsDecide
         /\ last.before # ""
         /\ successes[last.approval_id] # <<>>
         /\ ~last.success )
       => /\ last.error = "not_pending"
          /\ last.status = last.before

\* C4 witness: a deny_operation call after a successful approve_operation has
\* failed
C4_Witness ==
    /\ last.op = "deny"
    /\ ~last.success
    /\ last.error = "not_pending"
    /\ successes[last.approval_id] = <<"approve">>

\* C5: of the approve_operation and deny_operation calls that run concurrently
\* on one approval id, at most one returns success, under every interleaving
\* of their statements.
C5_OneConcurrentSuccess == \A approval_id \in Ids : Len(successes[approval_id]) <= 1

\* C6: a status that is APPROVED, DENIED or EXPIRED is never changed by any
\* operation while the request is in the ledger.
C6_StatusMonotone ==
    [][\A approval_id \in DOMAIN pending_approvals :
          ( /\ pending_approvals[approval_id].status \in {APPROVED, DENIED, EXPIRED}
            /\ approval_id \in DOMAIN pending_approvals' )
          => pending_approvals'[approval_id].status =
                pending_approvals[approval_id].status]_vars

\* C7: a get_approval_status call on a request that is PENDING returns EXPIRED
\* and records it when the clock is after expires_at, and does not return
\* EXPIRED when the clock is at or before expires_at.
C7_LazyExpiry ==
    (last.op = "status" /\ last.before = PENDING)
    => LET approval == pending_approvals[last.approval_id]
       IN  /\ now > approval.expires_at =>
                 (last.status = EXPIRED /\ approval.status = EXPIRED)
           /\ now <= approval.expires_at =>
                 (last.status = PENDING /\ approval.status = PENDING)

\* C7 witness: get_approval_status has found a PENDING request after its
\* expires_at and returned EXPIRED
C7_Witness ==
    /\ last.op = "status"
    /\ last.before = PENDING
    /\ last.status = EXPIRED
    /\ now > pending_approvals[last.approval_id].expires_at

\* C8: a decide call made after expires_at fails; on a request that was still
\* PENDING it fails as expired and sets neither a decision status nor the
\* decision fields.
C8_DecideAfterExpiryFails ==
    ( /\ IsDecide
      /\ last.approval_id \in DOMAIN pending_approvals
      /\ now > pending_approvals[last.approval_id].expires_at )
    => /\ ~last.success
       /\ last.before = PENDING =>
            LET approval == pending_approvals[last.approval_id]
            IN  /\ last.error = "expired"
                /\ approval.status \notin {APPROVED, DENIED}
                /\ approval.approved_at = None
                /\ approval.denied_at = None
                /\ approval.approved_by = "None"

\* C9: after deny_operation has succeeded for the approval id of a thread, a
\* resume step on the thread returns the cancellation message and the
\* request's statement is never executed.
C9_DeniedResumeCancels ==
    (IsResume /\ successes[last.approval_id] = <<"deny">>)
    => /\ last.response.kind = "cancelled"
       /\ last.execs = <<>>
       /\ exec_count[last.approval_id] = 0

\* C10: a resume step that finds the undecided request of its thread expired
\* executes nothing and returns the cancellation message of a denial.
C10_ExpiredResumeCancels ==
    ( /\ IsResume
      /\ successes[last.approval_id] = <<>>
      /\ last.before \in {PENDING, EXPIRED}
      /\ last.status = EXPIRED )
    => /\ last.execs = <<>>
       /\ last.response.kind = "cancelled"

\* The ordinary chat step that has just returned, and the statement its
\* final context holds
IsChatStep == last.op = "chat" /\ last.input = "user"

StepStatement == checkpoints[last.thread].values.context.sql_executed

C12_SafeExecutesImmediately ==
    /\ [](/\ wf.node = "human_approval" =>
               is_dangerous_operation(wf.state.context.sql_executed)
          /\ ( /\ IsChatStep
               /\ Len(StepStatement) > 0
               /\ ~is_dangerous_operation(StepStatement) )
             => /\ Len(last.execs) = 1
                /\ last.execs[1].sql = StepStatement
                /\ last.created = 0)
    /\ [][wf.node \notin {"idle", "human_approval"}
            => /\ pending_approvals' = pending_approvals
               /\ uuid_counter' = uuid_counter]_vars

\* C12 witness: a chat step has generated and executed a SELECT
C12_Witness ==
    /\ IsChatStep
    /\ StepStatement = <<"SELECT", "*", "FROM", "users">>
    /\ Len(last.execs) = 1
    /\ last.created = 0

\* The spellings of a keyword in the lexicon
Spellings(word) ==
    {word} \cup (CASE word = "DROP" -> {"drop"}
                   [] word = "TABLE" -> {"table"}
                   [] word = "SELECT" -> {"select"}
                   [] word = "UPDATE" -> {"update"}
                   [] OTHER -> {})

\* The statement starts with the keywords and goes on after them
StartsWith(s, words) ==
    /\ Len(s) > Len(words)
    /\ \A k \in 1..Len(words) : s[k] \in Spellings(words[k])

\* UPDATE ... SET ... WHERE 1=1
IsMassUpdate(s) ==
    /\ Len(s) >= 1
    /\ s[1] \in Spellings("UPDATE")
    /\ \E i \in 3..Len(s), j \in 5..Len(s) :
          /\ s[i] \in Spellings("SET")
          /\ i + 2 <= j
          /\ s[j] \in Spellings("WHERE")
          /\ \/ j + 1 <= Len(s) /\ s[j + 1] = "1=1"
             \/ j + 3 <= Len(s) /\ SubSeq(s, j + 1, j + 3) = <<"1", "=", "1">>

HasSafePrefix(s) ==
    /\ Len(s) >= 1
    /\ \E word \in {"SELECT", "INSERT", "CREATE", "SHOW", "DESCRIBE"} :
          s[1] \in Spellings(word)

\* C13: is_dangerous_operation(s) is true exactly when s has no safe prefix
\* and starts with DROP, DELETE FROM, ALTER TABLE or TRUNCATE TABLE or is an
\* UPDATE ... SET ... WHERE 1=1, whatever the letter case and whatever
\* follows; the call leaves the ledger as it was.
C13_ClassifierRule ==
    last.op = "classified" =>
        /\ last.success =
              ( /\ ~HasSafePrefix(last.response.sql)
                /\ \/ StartsWith(last.response.sql, <<"DROP">>)
                   \/ StartsWith(last.response.sql, <<"DELETE", "FROM">>)
                   \/ StartsWith(last.response.sql, <<"ALTER", "TABLE">>)
                   \/ StartsWith(last.response.sql, <<"TRUNCATE", "TABLE">>)
                   \/ IsMassUpdate(last.response.sql) )
        /\ DOMAIN pending_approvals = {}
        /\ uuid_counter = 0

\* C13 witness: a SELECT that names DROP TABLE later in its text has been
\* classified as not dangerous
C13_Witness ==
    /\ last.op = "classified"
    /\ last.response.sql =
          <<"SELECT", "*", "FROM", "users", "WHERE", "name", "=", "DROP", "TABLE">>
    /\ ~last.success

KeywordExecutionsApproved(execs) ==
    \A i \in 1..Len(execs) :
        Upper(execs[i].sql[1]) \in DANGEROUS_OPERATIONS =>
            /\ execs[i].approval_id # NoId
            /\ execs[i].status = APPROVED

\* C14: a statement whose first keyword is DROP, DELETE, ALTER or TRUNCATE is
\* executed only under an approval request that is APPROVED, whatever follows
\* the keyword.
C14_DocumentedOperationsGated ==
    /\ KeywordExecutionsApproved(last.execs)
    /\ KeywordExecutionsApproved(wf.execs)

\* C15: a resume step on a thread whose approval request is still PENDING
\* returns the approval message of the step that created the request: the
\* same approval id, operation type, table and statement.
C15_PendingResumeRepeatsPrompt ==
    ( /\ IsResume
      /\ last.before = PENDING
      /\ last.status = PENDING )
    => last.response =
          Resp("approval_message",
               checkpoints[last.thread].values.context.sql_executed,
               last.approval_id)

\* C16: after a resume step has executed the approved statement, the
\* thread's persisted context records the outcome of the execution and the
\* reply is the last of the thread's messages.
C16_ResumeOutcomeRecorded ==
    (IsResume /\ Len(last.execs) = 1)
    => LET values == checkpoints[last.thread].values
       IN  /\ values.context.operation_result = last.response
           /\ Len(values.messages) > 0
           /\ values.messages[Len(values.messages)] = AIMessage(last.response)

\* C17: stop_generation succeeds exactly when the session is registered with
\* is_active true; on a session that is unregistered or already stopped it
\* fails as not found.
C17_StopOnlyActive ==
    last.op = "stop" =>
        /\ last.success <=> last.before = "active"
        /\ ~last.success => last.error = "not_found"

\* C18: when stop_generation succeeds on a session with k text chunks
\* delivered, 1 <= k < words, and the generator suspended after chunk k, no
\* further text chunk is delivered, and once the stream has ended its last
\* chunk is the stopped signal and the session is gone from active_sessions.
C18_StopCutsDelivery ==
    \A s \in Sessions :
        ( /\ streams[s].stopped_at # None
          /\ 1 <= streams[s].stopped_at
          /\ streams[s].stopped_at < streams[s].words )
        => /\ streams[s].delivered = streams[s].stopped_at
           /\ streams[s].pc = "done" =>
                /\ streams[s].signals[Len(streams[s].signals)] = "stopped"
                /\ Cardinality({i \in 1..Len(streams[s].signals) :
                                   streams[s].signals[i] = "text"})
                      = streams[s].stopped_at
                /\ s \notin DOMAIN active_sessions

\* C18 witness: a stream stopped after its first chunk of two has ended
C18_Witness ==
    \E s \in Sessions :
        /\ streams[s].pc = "done"
        /\ streams[s].words = 2
        /\ streams[s].stopped_at = 1
        /\ streams[s].signals = <<"text", "stopped">>

\* C19: whatever stop_generation calls reach a session and whenever, its
\* generator calls agent.chat once started, the chat step runs to its end,
\* and a generated statement that is not dangerous is executed in it exactly
\* as in a request that is never stopped.
C19_StopNeverPreventsExecution ==
    \A s \in Sessions :
        /\ streams[s].pc \in {"yield_text", "sleep", "done"}
             => \/ streams[s].chat.called
                \/ streams[s].signals = <<"error">>
        /\ ( /\ streams[s].chat.called
             /\ Len(streams[s].chat.statement) > 0
             /\ ~is_dangerous_operation(streams[s].chat.statement) )
           => /\ Len(streams[s].chat.execs) = 1
              /\ streams[s].chat.execs[1].sql = streams[s].chat.statement
        /\ streams[s].pc = "chat" => s \in DOMAIN active_sessions

\* C19 witness: a session stopped before its generator started has executed
\* its statement all the same
C19_Witness ==
    \E s \in Sessions :
        /\ streams[s].stopped_at = 0
        /\ streams[s].chat.called
        /\ Len(streams[s].chat.execs) = 1
        /\ streams[s].pc = "done"

C21_RouterFailsToRespond ==
    wf.answer \in {"other", "raise"}
    => /\ wf.node \in {"response", "idle"}
       /\ wf.execs = <<>>
       /\ wf.created = 0
       /\ wf.node = "response" =>
            /\ wf.state.next_action = "response"
            /\ ~wf.state.context.present
       /\ (Idle /\ last.op = "chat" /\ last.input = "user") =>
            /\ last.response.kind \in {"llm_response", "llm_error"}
            /\ ~checkpoints[last.thread].values.context.present
            /\ checkpoints[last.thread].values.approval_id = NoId

\* C21 witness: a step whose routing call raised has ended with a reply
C21_Witness ==
    /\ Idle
    /\ wf.answer = "raise"
    /\ last.op = "chat"
    /\ last.response.kind = "llm_response"

\* C22: a failure of statement generation or of execute_sql_query stays
\* inside the step.  The step goes on to the response node with the failure
\* as its context and ends with a reply appended to the thread's persisted
\* messages; a generation failure executes nothing and creates no request; a
\* failed execution in a resume step is returned as its failure message; and
\* the step that follows a failed one on the same thread ends with a reply
\* of its own.
C22_FailuresStayInStep ==
    /\ wf.gen = "raise" =>
         /\ wf.execs = <<>>
         /\ wf.created = 0
         /\ wf.node \in {"response", "idle"}
         /\ wf.node = "response" =>
              wf.state.context.operation_result.kind = "error"
    /\ ~wf.exec_ok =>
         /\ Len(wf.execs) = 1
         /\ wf.node \in {"response", "idle"}
         /\ wf.node = "response" =>
              wf.state.context.operation_result.kind = "execution_failed"
    /\ (IsChatStep /\ Idle /\ (wf.gen = "raise" \/ ~wf.exec_ok)) =>
         LET values == checkpoints[last.thread].values
         IN  /\ last.success
             /\ last.response.kind \in {"llm_response", "llm_error"}
             /\ checkpoints[last.thread].exists
             /\ values.messages[Len(values.messages)] = AIMessage(last.response)
             /\ values.context.operation_result.kind
                   = (IF wf.gen = "raise" THEN "error" ELSE "execution_failed")
    /\ (last.op = "chat" /\ last.input \in Sentinels /\ Len(last.execs) = 1) =>
         /\ last.success
         /\ last.response.kind \in {"approved_executed", "approved_failed"}
    /\ (IsChatStep /\ Idle /\ last.before \in {"error", "execution_failed"}) =>
         LET values == checkpoints[last.thread].values
         IN  /\ last.success
             /\ Len(values.messages) >= 3
             /\ last.response # NoResp
             /\ wf.answer # "end" =>
                  /\ values.messages[Len(values.messages) - 1] = HumanMessage
                  /\ values.messages[Len(values.messages)] = AIMessage(last.response)

\* C22 witness: on a thread whose previous step failed in statement
\* generation, the next step has executed a statement and replied
C22_Witness ==
    /\ IsChatStep
    /\ Idle
    /\ last.before = "error"
    /\ Len(last.execs) = 1
    /\ wf.exec_ok
    /\ last.response.kind = "llm_response"

\* C23: a resume step on a thread whose stored approval id is not in the
\* ledger calls execute_sql_query not at all, leaves the ledger without that
\* id, and returns a response.
C23_UnknownIdResumeExecutesNothing ==
    ( /\ last.op = "chat"
      /\ last.input \in Sentinels
      /\ last.approval_id # NoId
      /\ last.before = "" )
    => /\ last.execs = <<>>
       /\ last.success
       /\ last.response.kind = "no_pending_approval"
       /\ last.approval_id \notin DOMAIN pending_approvals

\* C23 witness: a thread that holds a statement and the id of a request the
\* ledger has swept is resumed
C23_Witness ==
    /\ IsResume
    /\ last.before = ""
    /\ last.approval_id <= uuid_counter
    /\ checkpoints[last.thread].values.approval_id = last.approval_id
    /\ Len(checkpoints[last.thread].values.context.sql_executed) > 0
    /\ last.response.kind = "no_pending_approval"

\* C24: cleanup_expired_approvals removes the entries whose expires_at is
\* before the clock, whatever their status, and no other; it returns their
\* number and leaves every remaining entry as it was.
C24_CleanupRemovesExpired ==
    [][ last'.op = "cleanup" =>
          LET expired == { i \in DOMAIN pending_approvals :
                              now > pending_approvals[i].expires_at }
          IN  /\ DOMAIN pending_approvals' = DOMAIN pending_approvals \ expired
              /\ \A i \in DOMAIN pending_approvals' :
                    pending_approvals'[i] = pending_approvals[i]
              /\ last'.count = Cardinality(expired)
              /\ last'.success ]_vars

\* C24 witness: a cleanup has removed one expired entry and kept another
\* that was decided and has not expired
C24_Witness ==
    /\ last.op = "cleanup"
    /\ last.count = 1
    /\ \E i \in DOMAIN pending_approvals :
          /\ pending_approvals[i].status \in {APPROVED, DENIED}
          /\ now <= pending_approvals[i].expires_at

\* C25: get_approval_status, approve_operation and deny_operation called
\* with an id the ledger does not hold return the not-found result, without
\* success and without a status, and leave the ledger as it was.
C25_UnknownIdNotFound ==
    [][ ( /\ last'.op \in {"status", "approve", "deny"}
          /\ last'.approval_id \notin DOMAIN pending_approvals )
        => /\ last'.error = "not_found"
           /\ ~last'.success
           /\ last'.status = ""
           /\ pending_approvals' = pending_approvals
           /\ successes' = successes ]_vars

\* C25 witness: approve_operation has answered not found for the id of a
\* request that was created and then swept
C25_Witness ==
    /\ last.op = "approve"
    /\ last.error = "not_found"
    /\ last.approval_id <= uuid_counter
    /\ last.approval_id \notin DOMAIN pending_approvals

\* C26: create_approval_request succeeds and adds one entry under an id the
\* ledger did not hold, with the statement it was given, status PENDING,
\* created_at the clock, expires_at 300 seconds later and the decision fields
\* unset; every entry the ledger held is unchanged.
C26_CreateAddsOnePending ==
    [][ last'.op = "create" =>
          LET approval_id == last'.approval_id
          IN  /\ last'.success
              /\ approval_id \notin DOMAIN pending_approvals
              /\ DOMAIN pending_approvals' = DOMAIN pending_approvals \cup {approval_id}
              /\ \A i \in DOMAIN pending_approvals :
                    pending_approvals'[i] = pending_approvals[i]
              /\ pending_approvals'[approval_id].id = approval_id
              /\ pending_approvals'[approval_id].sql_query \in RequestStatements
              /\ pending_approvals'[approval_id].status = PENDING
              /\ pending_approvals'[approval_id].created_at = now
              /\ pending_approvals'[approval_id].expires_at = now + 300
              /\ pending_approvals'[approval_id].approved_at = None
              /\ pending_approvals'[approval_id].denied_at = None
              /\ pending_approvals'[approval_id].approved_by = "None" ]_vars

\* C26 witness: a request has been created at time 300 next to an earlier
\* request that was decided
C26_Witness ==
    /\ last.op = "create"
    /\ now = 300
    /\ Cardinality(DOMAIN pending_approvals) = 2
    /\ pending_approvals[last.approval_id].expires_at = 600
    /\ \E i \in DOMAIN pending_approvals :
          pending_approvals[i].status \in {APPROVED, DENIED}

\* The decision fields of a ledger entry
DecisionFields(approval) ==
    <<approval.approved_at, approval.denied_at, approval.approved_by>>

\* C27: a request has its decision fields unset as long as no decide call on
\* it has succeeded, in particular whenever its status is PENDING; the one
\* successful approve_operation (deny_operation) sets approved_at
\* (denied_at) and approved_by; and no other step changes them: not a failed
\* decide call, not get_approval_status, not the expiry of the request.
C27_DecisionFieldsSetOnce ==
    /\ [](\A i \in DOMAIN pending_approvals :
            LET approval == pending_approvals[i]
            IN  /\ approval.status = PENDING => successes[i] = <<>>
                /\ successes[i] = <<>> =>
                      DecisionFields(approval) = <<None, None, "None">>
                /\ successes[i] = <<"approve">> =>
                      /\ approval.approved_at # None
                      /\ approval.denied_at = None
                      /\ approval.approved_by \in Actors
                /\ successes[i] = <<"deny">> =>
                      /\ approval.denied_at # None
                      /\ approval.approved_at = None
                      /\ approval.approved_by \in Actors
                /\ Len(successes[i]) <= 1)
    /\ [][ \A i \in DOMAIN pending_approvals \cap DOMAIN pending_approvals' :
              DecisionFields(pending_approvals'[i]) # DecisionFields(pending_approvals[i])
              => /\ last'.op \in {"approve", "deny"}
                 /\ last'.approval_id = i
                 /\ last'.success
                 /\ pending_approvals[i].status = PENDING
                 /\ DecisionFields(pending_approvals[i]) = <<None, None, "None">> ]_vars

\* C27 witness: a request approved by alice was later marked expired by
\* get_approval_status and still carries its decision fields
C27_Witness ==
    /\ last.op = "status"
    /\ last.before = APPROVED
    /\ last.status = EXPIRED
    /\ pending_approvals[last.approval_id].approved_by = "alice"
    /\ pending_approvals[last.approval_id].approved_at # None

\* C28: once stop_generation has succeeded on a session whose response is
\* streamed as text, at most one further text chunk is emitted and the
\* stream ends with the stopped signal instead of running to completion.
C28_StopEndsWithStoppedSignal ==
    \A s \in Sessions :
        ( /\ streams[s].stopped_at # None
          /\ streams[s].words > 0 )
        => /\ streams[s].delivered <= streams[s].stopped_at + 1
           /\ streams[s].pc = "done" =>
                streams[s].signals[Len(streams[s].signals)] = "stopped"

C30_ResumeClearsPendingContext ==
    ( /\ IsResume
      /\ last.status \in {APPROVED, DENIED, EXPIRED} )
    => /\ checkpoints[last.thread].values.approval_id = NoId
       /\ checkpoints[last.thread].values.context.sql_executed = <<>>

C32_DecideChangesOnlyItsEntry ==
    /\ [][ /\ last'.op \in {"approve", "deny"} =>
                /\ checkpoints' = checkpoints
                /\ wf' = wf
                /\ exec_count' = exec_count
                /\ last'.execs = <<>>
                /\ DOMAIN pending_approvals' = DOMAIN pending_approvals
                /\ \A i \in DOMAIN pending_approvals :
                      i # last'.approval_id =>
                          pending_approvals'[i] = pending_approvals[i]
           /\ \A i \in Ids :
                exec_count'[i] # exec_count[i] =>
                    /\ last'.op = "chat"
                    /\ last'.input \in Sentinels
                    /\ checkpoints[last'.thread].values.approval_id = i
                    /\ successes[i] = <<"approve">> ]_vars
    /\ [](\A k \in 1..Len(last.execs) :
             last.execs[k].approval_id # NoId =>
                 /\ last.op = "chat"
                 /\ last.input \in Sentinels
                 /\ checkpoints[last.thread].values.approval_id =
                       last.execs[k].approval_id
                 /\ last.execs[k].sql =
                       checkpoints[last.thread].values.context.sql_executed)

\* C32 witness: the thread's second request was approved while its first
\* request stayed pending in the ledger, and the resume step on the thread
\* executed the statement of the second request
C32_Witness ==
    /\ IsResume
    /\ Len(last.execs) = 1
    /\ last.approval_id = 2
    /\ successes[2] = <<"approve">>
    /\ successes[1] = <<>>
    /\ 1 \in DOMAIN pending_approvals
    /\ pending_approvals[1].status = PENDING

\* C33: a chat step with the input __DENIED__ passes no statement to
\* execute_sql_query, whatever status the ledger holds for the thread's
\* request.
C33_DeniedSentinelExecutesNothing ==
    ( /\ last.op = "chat"
      /\ last.input = "__DENIED__" )
    => last.execs = <<>>

\* The request approval_id was created by a step of a thread that has since
\* processed another ordinary message: a user message follows the approval
\* message of the request in the thread's persisted messages
Superseded(approval_id) ==
    \E t \in Threads :
        LET messages == checkpoints[t].values.messages
        IN  \E k \in 1..Len(messages) :
                /\ messages[k].role = "assistant"
                /\ messages[k].content.kind = "approval_message"
                /\ messages[k].content.approval_id = approval_id
                /\ \E j \in (k + 1)..Len(messages) : messages[j].role = "user"

\* C34: once a thread has processed a new ordinary message, the request of
\* its earlier step is no thread's approval id any more and its statement is
\* never executed under it, also when the request is approved afterwards
\* and the thread is resumed; the chat steps of the thread leave the older
\* entry in the ledger as it is.
C34_SupersededRequestNeverExecutes ==
    /\ [](\A i \in Ids :
             Superseded(i) =>
                 /\ \A t \in Threads : checkpoints[t].values.approval_id # i
                 /\ \A k \in 1..Len(last.execs) : last.execs[k].approval_id # i)
    /\ [][\A i \in Ids :
             Superseded(i) =>
                 /\ Superseded(i)'
                 /\ exec_count'[i] = exec_count[i]
                 /\ (last'.op \in {"invoke", "chat"} \/ ~Idle) =>
                      /\ i \in DOMAIN pending_approvals'
                           <=> i \in DOMAIN pending_approvals
                      /\ i \in DOMAIN pending_approvals =>
                           pending_approvals'[i] = pending_approvals[i] ]_vars

\* C34 witness: the thread took a second step after the step that created
\* request 1, request 1 is approved in the ledger, and a resume step on the
\* thread has executed nothing
C34_Witness ==
    /\ Superseded(1)
    /\ 1 \in DOMAIN pending_approvals
    /\ pending_approvals[1].status = APPROVED
    /\ last.op = "chat"
    /\ last.input = "__APPROVED__"
    /\ last.thread \in TurnThreads
    /\ last.execs = <<>>
    /\ exec_count[1] = 0

\* C35: the thread_id in the response of a chat step is the thread the step
\* ran on, and when the step created an approval request, the persisted
\* state of the reported thread holds the id of that request, which is what
\* a resume sent with the reported thread_id reads.
C35_ReportedThreadIsStepThread ==
    ( /\ last.op = "chat"
      /\ last.input = "user" )
    => /\ last.reported = last.thread
       /\ last.created = 1 =>
            checkpoints[last.reported].values.approval_id =
                last.response.approval_id

\* is_final of the i-th event of a stream: i + 2 >= len(words) for a text
\* chunk, that is, the chunk is the last of the response; True for the
\* approval, stopped and error events
IsFinal(stream, i) ==
    \/ stream.signals[i] # "text"
    \/ Cardinality({ j \in 1..i : stream.signals[j] = "text" }) >= stream.words

\* C36: in the stream of a response that has text to deliver, no event
\* follows an event with is_final true, and a stream that has ended has
\* emitted a final event as its last event.
C36_OneFinalEventLast ==
    \A s \in Sessions :
        LET stream == streams[s]
        IN  stream.words > 0 =>
              /\ \A i \in 1..(Len(stream.signals) - 1) : ~IsFinal(stream, i)
              /\ stream.pc = "done" =>
                   /\ Len(stream.signals) > 0
                   /\ IsFinal(stream, Len(stream.signals))

\* C37: a call of get_pending_approvals returns the entries that are pending
\* and not past their expires_at, with count the number of entries returned;
\* it deletes every entry past its expires_at, whatever its status, and
\* leaves every other entry as it was.
C37_PendingListsAndSweeps ==
    [][ last'.op = "pending" =>
          LET past == { i \in DOMAIN pending_approvals :
                          now > pending_approvals[i].expires_at }
          IN  /\ last'.pending =
                    { i \in DOMAIN pending_approvals \ past :
                        pending_approvals[i].status = PENDING }
              /\ last'.count = Cardinality(last'.pending)
              /\ DOMAIN pending_approvals' = DOMAIN pending_approvals \ past
              /\ \A i \in DOMAIN pending_approvals' :
                    pending_approvals'[i] = pending_approvals[i] ]_vars

\* C37 witness: get_pending_approvals has returned the one request that is
\* still pending, and the approved request that had expired is gone from
\* the ledger
C37_Witness ==
    /\ last.op = "pending"
    /\ last.pending = {2}
    /\ last.count = 1
    /\ pending_approvals[2].status = PENDING
    /\ 1 \notin DOMAIN pending_approvals
    /\ successes[1] = <<"approve">>
    /\ now > issued[1]

====
